---------------------------- MODULE Spec2Model ----------------------------
(***************************************************************************)
(* Model of src/classificator.py: the taxonomy reader get_material_data,   *)
(* the Answer Corrector correct_answer_from_list and the classification    *)
(* workflow start_workflow.                                                *)
(*                                                                         *)
(* A caller makes one top-level call at a time.  From the initial state it *)
(* either invokes correct_answer_from_list directly, or builds the         *)
(* taxonomy with get_material_data and then runs start_workflow over the   *)
(* dictionary that call returned.  The oracles (the language-model calls)  *)
(* and the worksheet are the environment: every value they can deliver is  *)
(* drawn from a small set.                                                 *)
(***************************************************************************)
EXTENDS Integers, Sequences, FiniteSets

(***************************************************************************)
(* Bounds of the model.                                                    *)
(***************************************************************************)
\* rows of the worksheet read by one get_material_data call
MaxRows == 3
\* largest max_attempts a caller passes to correct_answer_from_list
MaxBudget == 4

(***************************************************************************)
(* Python values.  None is a value outside every string alphabet below;    *)
(* the empty string is an empty cell text or an empty oracle answer.       *)
(***************************************************************************)
None == "<None>"
GradeCells == {None, "", "Steel-A36", "S235"}
CategoryCells == {None, "Metal", "Other"}
SubcategoryCells == {None, "Ferrous", "Other"}

\* A worksheet row: columns 0, 5 and 6 are the ones the code reads.
Rows == [grade : GradeCells, category : CategoryCells, subcategory : SubcategoryCells]

\* Python truth value of a cell: `not v` holds of None and of the empty string.
Falsy(v) == v = None \/ v = ""

\* {} : the empty dict, and the empty list.
EmptyDict == <<>>

VARIABLES
    scenario,            \* which top-level call sequence the caller runs
    gmd_pc,              \* get_material_data: "start", "rows", "returned"
    load_status,         \* outcome of load_workbook
    rows_read,           \* rows the iter_rows loop has processed so far
    material_data_dict,  \* the dict under construction (category -> subcategory -> grades)
    gmd_ret,             \* value get_material_data returned
    gmd_exc,             \* exception get_material_data let through to its caller
    stdout,              \* messages printed so far
    corr_pc,             \* corrector: "idle", "running", "unwinding", "returned"
    corr_stack,          \* activations of correct_answer_from_list, outermost first
    corr_inflight,       \* value the last activation returned
    corr_args,           \* arguments of the outermost invocation
    oracle_log,          \* oracle calls of the corrector: stage (0: direct call), answer sent, response
    wf_pc,               \* start_workflow: the statement it is at
    wf_stage,            \* 1 category, 2 subcategory, 3 grade (0 before the first)
    wf_exc,              \* exception start_workflow let through to its caller
    material_info,       \* line 246
    mat_category,        \* line 250
    mat_subcategory,     \* line 264
    mat_grade,           \* line 276
    info_calls,          \* calls of get_material_information in this run
    classify_log,        \* calls that reached classify_material: stage, description, options, answer
    corrector_calls,     \* invocations of correct_answer_from_list by this run
    parked               \* the locals of a second run, suspended while this one runs

vars == <<scenario, gmd_pc, load_status, rows_read, material_data_dict, gmd_ret,
          gmd_exc, stdout, corr_pc, corr_stack, corr_inflight, corr_args, oracle_log,
          wf_pc, wf_stage, wf_exc, material_info, mat_category, mat_subcategory,
          mat_grade, info_calls, classify_log, corrector_calls, parked>>

wf_vars == <<wf_pc, wf_stage, wf_exc, material_info, mat_category, mat_subcategory,
             mat_grade, info_calls, classify_log, corrector_calls>>

corr_vars == <<corr_pc, corr_stack, corr_inflight, corr_args, oracle_log>>

gmd_vars == <<gmd_pc, load_status, rows_read, material_data_dict, gmd_ret, gmd_exc>>

(***************************************************************************)
(* get_material_data, lines 9-49.                                          *)
(***************************************************************************)

\* lines 32 and 39: the two `continue` tests of the loop body
RowSkippedGradeOnly(row) == row.grade = None
RowSkipped(row) ==
    \/ row.grade = None
    \/ Falsy(row.category) \/ Falsy(row.subcategory) \/ Falsy(row.grade)

\* lines 46-47: append the grade unless the list holds it already
AppendGradeAlways(grades, grade) == Append(grades, grade)
AppendGrade(grades, grade) ==
    IF \E i \in 1..Len(grades) : grades[i] = grade
    THEN grades
    ELSE Append(grades, grade)

\* lines 42-47 with the `if` of line 46 nested under the one of line 44
InsertRowGradeOnlyOnOldSub(d, row) ==
    LET c == row.category
        s == row.subcategory
        d1 == IF c \in DOMAIN d THEN d ELSE [k \in DOMAIN d \cup {c} |->
                    IF k \in DOMAIN d THEN d[k] ELSE EmptyDict]
        sub == d1[c]
        sub1 == IF s \in DOMAIN sub THEN [sub EXCEPT ![s] = AppendGrade(@, row.grade)]
                ELSE [k \in DOMAIN sub \cup {s} |->
                    IF k \in DOMAIN sub THEN sub[k] ELSE <<>>]
    IN  [d1 EXCEPT ![c] = sub1]

\* lines 42-47: create the category, the subcategory, then add the grade
InsertRow(d, row) ==
    LET c == row.category
        s == row.subcategory
        d1 == IF c \in DOMAIN d THEN d ELSE [k \in DOMAIN d \cup {c} |->
                    IF k \in DOMAIN d THEN d[k] ELSE EmptyDict]
        sub == d1[c]
        sub1 == IF s \in DOMAIN sub THEN sub ELSE [k \in DOMAIN sub \cup {s} |->
                    IF k \in DOMAIN sub THEN sub[k] ELSE <<>>]
        sub2 == [sub1 EXCEPT ![s] = AppendGrade(@, row.grade)]
    IN  [d1 EXCEPT ![c] = sub2]

\* lines 31-47: the loop body for one row
ProcessedRow(d, row) == IF RowSkipped(row) THEN d ELSE InsertRow(d, row)

\* The caller invokes get_material_data(material_list_file).
CallGetMaterialData ==
    /\ scenario = "none"
    /\ scenario' = "taxonomy"
    /\ UNCHANGED <<gmd_vars, stdout, corr_vars, wf_vars, parked>>

\* lines 19-29: load_workbook succeeds
LoadWorkbook ==
    /\ scenario = "taxonomy" /\ gmd_pc = "start"
    /\ load_status' = "ok"
    /\ material_data_dict' = EmptyDict
    /\ gmd_pc' = "rows"
    /\ UNCHANGED <<scenario, rows_read, gmd_ret, gmd_exc, stdout, corr_vars, wf_vars, parked>>

\* the handlers of lines 21-26 with `raise` in place of `return {}`
LoadFailedReraise(err, msg) ==
    /\ load_status' = err
    /\ stdout' = Append(stdout, msg)
    /\ gmd_exc' = err
    /\ gmd_pc' = "raised"
    /\ UNCHANGED <<scenario, rows_read, material_data_dict, gmd_ret, corr_vars, wf_vars, parked>>

\* lines 21-26: print the message and return {}
LoadFailed(err, msg) ==
    /\ load_status' = err
    /\ stdout' = Append(stdout, msg)
    /\ gmd_ret' = EmptyDict
    /\ gmd_pc' = "returned"
    /\ UNCHANGED <<scenario, rows_read, material_data_dict, gmd_exc, corr_vars, wf_vars, parked>>

\* lines 21-23: the file does not exist
LoadFileNotFound ==
    /\ scenario = "taxonomy" /\ gmd_pc = "start"
    /\ LoadFailed("FileNotFoundError", "Error: File not found.")

\* lines 24-26: the file cannot be read as a workbook
LoadException ==
    /\ scenario = "taxonomy" /\ gmd_pc = "start"
    /\ LoadFailed("Exception", "Error: Failed to load workbook")

\* lines 31-47: one iteration of the loop
ProcessRow ==
    /\ scenario = "taxonomy" /\ gmd_pc = "rows"
    /\ Len(rows_read) < MaxRows
    /\ \E row \in Rows :
        /\ rows_read' = Append(rows_read, row)
        /\ material_data_dict' = ProcessedRow(material_data_dict, row)
    /\ UNCHANGED <<scenario, gmd_pc, load_status, gmd_ret, gmd_exc, stdout, corr_vars, wf_vars, parked>>

\* line 49: the worksheet is exhausted
ReturnMaterialData ==
    /\ scenario = "taxonomy" /\ gmd_pc = "rows"
    /\ gmd_ret' = material_data_dict
    /\ gmd_pc' = "returned"
    /\ rows_read' = <<>>
    /\ UNCHANGED <<scenario, load_status, material_data_dict, gmd_exc, stdout, corr_vars, wf_vars, parked>>

\* lines 52-62, 65-76, 79-91: the lookups (a missing key raises KeyError)
get_categories(material_data) == DOMAIN material_data
get_subcategories(material_data, category) == DOMAIN material_data[category]
get_grades(material_data, category, subcategory) == material_data[category][subcategory]

(***************************************************************************)
(* correct_answer_from_list, lines 183-230.  The function calls itself     *)
(* (line 227), so its activations are kept on a stack of frames; the top   *)
(* of the stack is the last element.                                       *)
(***************************************************************************)

\* line 184: the default of max_attempts
DefaultMaxAttempts == 3

\* line 184: the default of counter
DefaultCounter == 0

\* what the oracle of line 218 can answer, and the answers a caller submits
Responses == {"Metal", "Ferrous", "garbage"}
Answers == {"garbage", "metal alloy"}
OptionSets == {{"Metal", "Other"}, {"Ferrous"}}

Frame(answer, options, counter, max_attempts) ==
    [answer |-> answer, options |-> options, counter |-> counter,
     max_attempts |-> max_attempts, pc |-> "entry"]

Top(stack) == stack[Len(stack)]
Pop(stack) == SubSeq(stack, 1, Len(stack) - 1)

\* line 227 with `counter` left out of the recursive call as well
RecursiveFrameCounterReset(frame, new_answer) ==
    Frame(new_answer, frame.options, DefaultCounter, DefaultMaxAttempts)

\* line 227 with `answer` in place of `new_answer`
RecursiveFrameOriginalAnswer(frame, new_answer) ==
    Frame(frame.answer, frame.options, frame.counter + 1, DefaultMaxAttempts)

\* line 227: the arguments of the recursive call; max_attempts is not passed
\* on, so the callee runs with the default
RecursiveFrame(frame, new_answer) ==
    Frame(new_answer, frame.options, frame.counter + 1, DefaultMaxAttempts)

\* line 227: the value of the recursive call is not returned; the caller's
\* activation runs off the end of the function and returns None
AfterRecursion(returned) == None

\* A frame returns `value`: to the frame below it, or, from the outermost
\* frame, to whoever invoked the corrector.
CorrReturn(value) ==
    /\ corr_stack' = Pop(corr_stack)
    /\ corr_inflight' = value
    /\ corr_pc' = IF Len(corr_stack) = 1 THEN "returned" ELSE "unwinding"

\* The caller invokes correct_answer_from_list(answer, options,
\* max_attempts=max_attempts) directly.
CallCorrector ==
    /\ scenario = "none"
    /\ scenario' = "corrector"
    /\ \E answer \in Answers, options \in OptionSets, max_attempts \in 0..MaxBudget :
        /\ corr_stack' = <<Frame(answer, options, DefaultCounter, max_attempts)>>
        /\ corr_args' = [answer |-> answer, options |-> options,
                         max_attempts |-> max_attempts]
    /\ corr_pc' = "running"
    /\ oracle_log' = <<>>
    /\ UNCHANGED <<corr_inflight, gmd_vars, stdout, wf_vars, parked>>

\* lines 203-207: the budget is used up
CorrGiveUp ==
    /\ corr_pc = "running"
    /\ Top(corr_stack).counter >= Top(corr_stack).max_attempts
    /\ stdout' = Append(stdout, "could not correct")
    /\ CorrReturn(None)
    /\ UNCHANGED <<scenario, corr_args, oracle_log, gmd_vars, wf_vars, parked>>

\* lines 208-224: the oracle answers with a member of options
CorrOracleMember ==
    /\ corr_pc = "running"
    /\ Top(corr_stack).counter < Top(corr_stack).max_attempts
    /\ \E r \in Responses :
        /\ r \in Top(corr_stack).options
        /\ oracle_log' = Append(oracle_log,
                                [stage |-> wf_stage, answer |-> Top(corr_stack).answer,
                                 response |-> r])
        /\ CorrReturn(r)
    /\ UNCHANGED <<scenario, corr_args, gmd_vars, stdout, wf_vars, parked>>

\* lines 208-227: the oracle answers outside options; the function calls itself
CorrOracleRetry ==
    /\ corr_pc = "running"
    /\ Top(corr_stack).counter < Top(corr_stack).max_attempts
    /\ \E r \in Responses :
        /\ r \notin Top(corr_stack).options
        /\ oracle_log' = Append(oracle_log,
                                [stage |-> wf_stage, answer |-> Top(corr_stack).answer,
                                 response |-> r])
        /\ corr_stack' =
             Append([corr_stack EXCEPT ![Len(corr_stack)] =
                        [@ EXCEPT !.counter = @ + 1, !.pc = "awaiting"]],
                    RecursiveFrame(Top(corr_stack), r))
    /\ UNCHANGED <<scenario, corr_pc, corr_inflight, corr_args, gmd_vars, stdout, wf_vars, parked>>

\* the handler of lines 228-230 trying again instead of returning None
CorrTypeErrorRetries ==
    /\ corr_pc = "running"
    /\ Top(corr_stack).counter < Top(corr_stack).max_attempts
    /\ oracle_log' = Append(oracle_log,
                            [stage |-> wf_stage, answer |-> Top(corr_stack).answer,
                                 response |-> None])
    /\ stdout' = Append(stdout, "got wrong type of answer from llm")
    /\ corr_stack' =
         Append([corr_stack EXCEPT ![Len(corr_stack)] =
                    [@ EXCEPT !.counter = @ + 1, !.pc = "awaiting"]],
                RecursiveFrame(Top(corr_stack), Top(corr_stack).answer))
    /\ UNCHANGED <<scenario, corr_pc, corr_inflight, corr_args, gmd_vars, wf_vars, parked>>

\* lines 221-222, 228-230: reading the response raises TypeError
CorrTypeError ==
    /\ corr_pc = "running"
    /\ Top(corr_stack).counter < Top(corr_stack).max_attempts
    /\ oracle_log' = Append(oracle_log,
                            [stage |-> wf_stage, answer |-> Top(corr_stack).answer,
                                 response |-> None])
    /\ stdout' = Append(stdout, "got wrong type of answer from llm")
    /\ CorrReturn(None)
    /\ UNCHANGED <<scenario, corr_args, gmd_vars, wf_vars, parked>>

\* line 227 to the end of the function: the recursive call has returned
CorrRecursionReturned ==
    /\ corr_pc = "unwinding"
    /\ Top(corr_stack).pc = "awaiting"
    /\ CorrReturn(AfterRecursion(corr_inflight))
    /\ UNCHANGED <<scenario, corr_args, oracle_log, gmd_vars, stdout, wf_vars, parked>>

(***************************************************************************)
(* start_workflow, lines 233-288.                                          *)
(***************************************************************************)

\* what get_material_information (line 246) and classify_material can answer
Descriptions == {"an alloy of iron and carbon", "a polymer"}
ClassifyAnswers == Responses \cup {"Steel-A36", "Other", ""}

\* the dictionary start_workflow is given: the one get_material_data returned
material_db == gmd_ret

\* lines 140-142: the parameters of classify_material
ClassifyMaterialParams == {"material_name", "material_information", "options"}

\* the keyword arguments of the three calls of classify_material: lines 250-254
\* pass three keywords, lines 264 and 276 pass three positional arguments
StageCallKeywords(stage) ==
    IF stage = 1 THEN {"material_name", "material_information", "categories"} ELSE {}
StageCallPositional(stage) == IF stage = 1 THEN 0 ELSE 3

\* Python binds a call when every keyword names a parameter and every
\* parameter gets a value; otherwise the call raises TypeError before the
\* body of the function runs.
\* The call of stage 1 names a keyword `categories` that classify_material
\* does not have, so every run ends there: the statements after line 254 are
\* modelled below as the code has them, and no run reaches them.
CallBinds(stage) ==
    /\ StageCallKeywords(stage) \subseteq ClassifyMaterialParams
    /\ StageCallPositional(stage) + Cardinality(StageCallKeywords(stage))
          = Cardinality(ClassifyMaterialParams)

Range(seq) == {seq[i] : i \in 1..Len(seq)}

\* lines 249, 263, 273-275: whether the lookup of the stage finds its keys
LookupSucceeds(stage) ==
    CASE stage = 1 -> TRUE
      [] stage = 2 -> mat_category \in DOMAIN material_db
      [] stage = 3 -> mat_subcategory \in DOMAIN material_db[mat_category]

\* lines 249, 263, 273-275: categories, subcategories, grades
StageOptions(stage) ==
    CASE stage = 1 -> get_categories(material_db)
      [] stage = 2 -> get_subcategories(material_db, mat_category)
      [] stage = 3 -> Range(get_grades(material_db, mat_category, mat_subcategory))

\* the variable the stage assigns: mat_category, mat_subcategory, mat_grade
StageValue(stage) ==
    CASE stage = 1 -> mat_category
      [] stage = 2 -> mat_subcategory
      [] stage = 3 -> mat_grade

SetStageValue(stage, value) ==
    /\ mat_category' = IF stage = 1 THEN value ELSE mat_category
    /\ mat_subcategory' = IF stage = 2 THEN value ELSE mat_subcategory
    /\ mat_grade' = IF stage = 3 THEN value ELSE mat_grade

\* lines 259-260, 269-270, 281-282: `if not x: x = "Other"`
OrOther(value) == IF Falsy(value) THEN "Other" ELSE value

\* The caller invokes start_workflow(material_name, material_db) with the
\* dictionary get_material_data returned.
CallStartWorkflow ==
    /\ scenario = "taxonomy" /\ gmd_pc = "returned"
    /\ scenario' = "workflow"
    /\ wf_pc' = "info"
    /\ UNCHANGED <<wf_stage, wf_exc, material_info, mat_category, mat_subcategory,
                   mat_grade, info_calls, classify_log, corrector_calls,
                   gmd_vars, corr_vars, stdout, parked>>

\* line 246: the information oracle answers
WfGetInformation ==
    /\ scenario = "workflow" /\ wf_pc = "info"
    /\ \E d \in Descriptions : material_info' = d
    /\ info_calls' = info_calls + 1
    /\ wf_stage' = 1
    /\ wf_pc' = "lookup"
    /\ UNCHANGED <<scenario, wf_exc, mat_category, mat_subcategory, mat_grade,
                   classify_log, corrector_calls, gmd_vars, corr_vars, stdout, parked>>

\* the lookups with `material_db.setdefault("Other", {})` ahead of them, so
\* that the fallback key always exists
WfLookupSetDefault ==
    /\ gmd_ret' = [k \in DOMAIN gmd_ret \cup {"Other"} |->
                      IF k \in DOMAIN gmd_ret THEN gmd_ret[k] ELSE EmptyDict]
    /\ wf_pc' = "classify"
    /\ UNCHANGED wf_exc

\* lines 249, 263, 273-275: look the options of the stage up; keys() and
\* the subscripts only read the dictionary
WfLookup ==
    /\ UNCHANGED gmd_ret
    /\ IF LookupSucceeds(wf_stage)
       THEN /\ wf_pc' = "classify"
            /\ UNCHANGED wf_exc
       ELSE /\ wf_pc' = "raised"
            /\ wf_exc' = "KeyError"

\* lines 250-254, 264, 276: call classify_material; the oracle answers
WfClassify ==
    IF CallBinds(wf_stage)
    THEN /\ \E r \in ClassifyAnswers :
              /\ SetStageValue(wf_stage, r)
              /\ classify_log' = Append(classify_log,
                     [stage |-> wf_stage, material_information |-> material_info,
                      options |-> StageOptions(wf_stage), answer |-> r])
         /\ wf_pc' = "check"
         /\ UNCHANGED wf_exc
    ELSE /\ wf_pc' = "raised"
         /\ wf_exc' = "TypeError"
         /\ UNCHANGED <<mat_category, mat_subcategory, mat_grade, classify_log>>

\* lines 256-257, 266-267, 278-279: an answer outside the options goes to
\* correct_answer_from_list, called with the defaults of counter and max_attempts
WfCheck ==
    IF StageValue(wf_stage) \notin StageOptions(wf_stage)
    THEN /\ corr_stack' = <<Frame(StageValue(wf_stage), StageOptions(wf_stage),
                                  DefaultCounter, DefaultMaxAttempts)>>
         /\ corr_args' = [answer |-> StageValue(wf_stage),
                          options |-> StageOptions(wf_stage),
                          max_attempts |-> DefaultMaxAttempts]
         /\ corr_pc' = "running"
         /\ corrector_calls' = corrector_calls + 1
         /\ wf_pc' = "correcting"
         /\ UNCHANGED <<corr_inflight, oracle_log>>
    ELSE /\ wf_pc' = "fallback"
         /\ UNCHANGED <<corr_vars, corrector_calls>>

\* lines 257, 267, 279: correct_answer_from_list has returned
WfCorrected ==
    /\ corr_pc = "returned"
    /\ SetStageValue(wf_stage, corr_inflight)
    /\ corr_pc' = "idle"
    /\ wf_pc' = "fallback"

\* lines 259-260, 269-270, 281-288: fall back to "Other", then go on to the
\* next stage or return the result
WfFallback ==
    /\ SetStageValue(wf_stage, OrOther(StageValue(wf_stage)))
    /\ IF wf_stage < 3
       THEN /\ wf_stage' = wf_stage + 1
            /\ wf_pc' = "lookup"
       ELSE /\ wf_pc' = "returned"
            /\ UNCHANGED wf_stage

\* lines 248-288: the next statement of the run
WfStep ==
    /\ scenario = "workflow"
    /\ CASE wf_pc = "lookup" ->
              /\ WfLookup
              /\ UNCHANGED <<wf_stage, mat_category, mat_subcategory, mat_grade,
                             classify_log, corrector_calls, corr_vars>>
         [] wf_pc = "classify" ->
              /\ WfClassify
              /\ UNCHANGED <<wf_stage, corrector_calls, corr_vars, gmd_ret>>
         [] wf_pc = "check" ->
              /\ WfCheck
              /\ UNCHANGED <<wf_stage, wf_exc, mat_category, mat_subcategory,
                             mat_grade, classify_log, gmd_ret>>
         [] wf_pc = "correcting" ->
              /\ WfCorrected
              /\ UNCHANGED <<wf_stage, wf_exc, classify_log, corrector_calls,
                             corr_stack, corr_inflight, corr_args, oracle_log,
                             gmd_ret>>
         [] wf_pc = "fallback" ->
              /\ WfFallback
              /\ UNCHANGED <<wf_exc, classify_log, corrector_calls, corr_vars,
                             gmd_ret>>
         [] OTHER -> FALSE
    /\ UNCHANGED <<scenario, material_info, info_calls, gmd_pc, load_status,
                   rows_read, material_data_dict, gmd_exc, stdout, parked>>

\* the locals of a caller that has invoked nothing yet
NotStarted(scen) ==
    [scenario |-> scen,
     corr_pc |-> "idle", corr_stack |-> <<>>, corr_inflight |-> None,
     corr_args |-> [answer |-> None, options |-> {}, max_attempts |-> DefaultMaxAttempts],
     oracle_log |-> <<>>,
     wf_pc |-> "idle", wf_stage |-> 0, wf_exc |-> "none", material_info |-> None,
     mat_category |-> None, mat_subcategory |-> None, mat_grade |-> None,
     info_calls |-> 0, classify_log |-> <<>>, corrector_calls |-> 0]

Init ==
    /\ scenario = "none"
    /\ gmd_pc = "start"
    /\ load_status = "unloaded"
    /\ rows_read = <<>>
    /\ material_data_dict = EmptyDict
    /\ gmd_ret = EmptyDict
    /\ gmd_exc = "none"
    /\ stdout = <<>>
    /\ corr_pc = "idle"
    /\ corr_stack = <<>>
    /\ corr_inflight = None
    /\ corr_args = [answer |-> None, options |-> {}, max_attempts |-> DefaultMaxAttempts]
    /\ oracle_log = <<>>
    /\ wf_pc = "idle"
    /\ wf_stage = 0
    /\ wf_exc = "none"
    /\ material_info = None
    /\ mat_category = None
    /\ mat_subcategory = None
    /\ mat_grade = None
    /\ info_calls = 0
    /\ classify_log = <<>>
    /\ corrector_calls = 0
    /\ parked = NotStarted("none")

Next ==
    \/ CallGetMaterialData
    \/ LoadWorkbook
    \/ LoadFileNotFound
    \/ LoadException
    \/ ProcessRow
    \/ ReturnMaterialData
    \/ CallCorrector
    \/ CorrGiveUp
    \/ CorrOracleMember
    \/ CorrOracleRetry
    \/ CorrTypeError
    \/ CorrRecursionReturned
    \/ CallStartWorkflow
    \/ WfGetInformation
    \/ WfStep

Spec == Init /\ [][Next]_vars

\* the steps of a corrector invocation and of a workflow run
CorrectorStep ==
    CorrGiveUp \/ CorrOracleMember \/ CorrOracleRetry \/ CorrTypeError
        \/ CorrRecursionReturned
WorkflowStep == WfGetInformation \/ WfStep

\* Every oracle call returns and the interpreter runs the statement that
\* follows: a corrector invocation and a workflow run that can take a step
\* eventually take one.
SpecLive == Spec /\ WF_vars(CorrectorStep) /\ WF_vars(WorkflowStep)

(***************************************************************************)
(* Two runs over one taxonomy.  The module has no global that a function   *)
(* assigns: every name start_workflow and correct_answer_from_list write   *)
(* is a parameter or a local of the activation (lines 183-185, 233, 246-   *)
(* 282).  A second caller is therefore a second copy of the locals; the    *)
(* dictionary get_material_data returned and the standard output are the   *)
(* only objects both callers hold.  The variables scenario, corr_vars and  *)
(* wf_vars are the locals of the run that is executing, `parked` holds     *)
(* those of the run that is suspended.                                     *)
(***************************************************************************)

\* the locals of the run that is executing
RunLocals ==
    [scenario |-> scenario,
     corr_pc |-> corr_pc, corr_stack |-> corr_stack, corr_inflight |-> corr_inflight,
     corr_args |-> corr_args, oracle_log |-> oracle_log,
     wf_pc |-> wf_pc, wf_stage |-> wf_stage, wf_exc |-> wf_exc,
     material_info |-> material_info,
     mat_category |-> mat_category, mat_subcategory |-> mat_subcategory,
     mat_grade |-> mat_grade,
     info_calls |-> info_calls, classify_log |-> classify_log,
     corrector_calls |-> corrector_calls]

\* lines 183-185 with `counter` a module-level name instead of a parameter:
\* the run that resumes finds the value the other run left in it
ResumedCounterShared(saved, suspended) ==
    IF saved.corr_stack # <<>> /\ suspended.corr_stack # <<>>
    THEN [saved EXCEPT !.corr_stack[Len(saved.corr_stack)].counter =
                            Top(suspended.corr_stack).counter]
    ELSE saved

\* lines 183-185, 233: answer, options, counter, max_attempts and the names
\* start_workflow assigns belong to the activation, so a run that resumes
\* finds its locals as it left them, whatever the other run did meanwhile
Resumed(saved, suspended) == saved

\* lines 136, 173, 218: while an oracle call is in flight, or before a run
\* starts and after it ends, the other run executes.  Any statement boundary
\* is allowed here, which includes every interleaving at the oracle calls.
Switch ==
    /\ parked' = RunLocals
    /\ LET r == Resumed(parked, RunLocals)
       IN  /\ scenario' = r.scenario
           /\ corr_pc' = r.corr_pc
           /\ corr_stack' = r.corr_stack
           /\ corr_inflight' = r.corr_inflight
           /\ corr_args' = r.corr_args
           /\ oracle_log' = r.oracle_log
           /\ wf_pc' = r.wf_pc
           /\ wf_stage' = r.wf_stage
           /\ wf_exc' = r.wf_exc
           /\ material_info' = r.material_info
           /\ mat_category' = r.mat_category
           /\ mat_subcategory' = r.mat_subcategory
           /\ mat_grade' = r.mat_grade
           /\ info_calls' = r.info_calls
           /\ classify_log' = r.classify_log
           /\ corrector_calls' = r.corrector_calls
    /\ UNCHANGED <<gmd_vars, stdout>>

\* taxonomies get_material_data builds from a one-row workbook
TwoRunTaxonomies ==
    {InsertRow(EmptyDict, [grade |-> "Steel-A36", category |-> "Metal",
                           subcategory |-> "Ferrous"]),
     InsertRow(EmptyDict, [grade |-> "S235", category |-> "Other",
                           subcategory |-> "Other"])}

\* get_material_data has returned the taxonomy; each of the two callers is
\* about to invoke start_workflow with it ("taxonomy") or to invoke
\* correct_answer_from_list directly ("none")
InitTwoRuns ==
    /\ gmd_pc = "returned"
    /\ load_status = "ok"
    /\ rows_read = <<>>
    /\ material_data_dict \in TwoRunTaxonomies
    /\ gmd_ret = material_data_dict
    /\ gmd_exc = "none"
    /\ stdout = <<>>
    /\ \E scen \in {"none", "taxonomy"} :
        /\ scenario = scen
        /\ corr_pc = NotStarted(scen).corr_pc
        /\ corr_stack = NotStarted(scen).corr_stack
        /\ corr_inflight = NotStarted(scen).corr_inflight
        /\ corr_args = NotStarted(scen).corr_args
        /\ oracle_log = NotStarted(scen).oracle_log
        /\ wf_pc = NotStarted(scen).wf_pc
        /\ wf_stage = NotStarted(scen).wf_stage
        /\ wf_exc = NotStarted(scen).wf_exc
        /\ material_info = NotStarted(scen).material_info
        /\ mat_category = NotStarted(scen).mat_category
        /\ mat_subcategory = NotStarted(scen).mat_subcategory
        /\ mat_grade = NotStarted(scen).mat_grade
        /\ info_calls = NotStarted(scen).info_calls
        /\ classify_log = NotStarted(scen).classify_log
        /\ corrector_calls = NotStarted(scen).corrector_calls
    /\ parked \in {NotStarted(scen) : scen \in {"none", "taxonomy"}}

NextTwoRuns ==
    \/ CallCorrector
    \/ CorrGiveUp
    \/ CorrOracleMember
    \/ CorrOracleRetry
    \/ CorrTypeError
    \/ CorrRecursionReturned
    \/ CallStartWorkflow
    \/ WfGetInformation
    \/ WfStep
    \/ Switch

SpecTwoRuns == InitTwoRuns /\ [][NextTwoRuns]_vars

(***************************************************************************)
(* Properties.                                                             *)
(***************************************************************************)

WfEnded == wf_pc \in {"returned", "raised"}

\* the run is over a taxonomy read from a workbook, with at least one category
TaxonomyLoaded == load_status = "ok" /\ get_categories(material_db) # {}

\* the classify_material statement of the stage has been executed
ClassifyExecuted(stage) ==
    \/ wf_stage > stage
    \/ /\ wf_stage = stage
       /\ \/ wf_pc \in {"check", "correcting", "fallback", "returned"}
          \/ wf_pc = "raised" /\ wf_exc # "KeyError"

\* the stage is over: the run is past it, or ended in it after its lookup
StageOver(stage) ==
    \/ wf_stage > stage
    \/ wf_stage = stage /\ wf_pc = "returned"
    \/ wf_stage = stage /\ wf_pc = "raised" /\ wf_exc # "KeyError"

FirstAnswerExact(stage) ==
    \E i \in 1..Len(classify_log) :
        classify_log[i].stage = stage /\ classify_log[i].answer \in classify_log[i].options

StageCorrections(stage) ==
    LET OfStage(e) == e.stage = stage IN SelectSeq(oracle_log, OfStage)

CorrectorSucceeds(stage, options) ==
    \E i \in 1..Len(StageCorrections(stage)) :
        i <= DefaultMaxAttempts /\ StageCorrections(stage)[i].response \in options

\* C1: every stage of start_workflow returns a member of its options exactly
\* when the classification oracle's first answer is a member or the corrector
\* succeeds within max_attempts, returns "Other" in every other case, and
\* never anything else (stated of the runs over a loaded taxonomy).
C1_StageReturnsMemberOrOther ==
    \A stage \in 1..3 :
        (TaxonomyLoaded /\ StageOver(stage)) =>
            /\ wf_exc # "TypeError"
            /\ StageValue(stage) \in StageOptions(stage) \cup {"Other"}
            /\ StageValue(stage) \in StageOptions(stage)
                  <=> \/ FirstAnswerExact(stage)
                      \/ CorrectorSucceeds(stage, StageOptions(stage))

\* C2: a top-level invocation of correct_answer_from_list with max_attempts
\* makes at most max_attempts oracle calls, those of its recursive
\* re-invocations included.
C2_AtMostMaxAttemptsCalls ==
    scenario = "corrector" => Len(oracle_log) <= corr_args.max_attempts

\* the first response, among the first max_attempts, that is a member of options
FirstMemberResponse(log, options, max_attempts) ==
    LET hits == {i \in 1..Len(log) : i <= max_attempts /\ log[i].response \in options}
    IN  IF hits = {} THEN None
        ELSE log[CHOOSE i \in hits : \A j \in hits : i <= j].response

\* C3: a top-level invocation of correct_answer_from_list returns the first
\* oracle response that is a member of options, if it is among the first
\* max_attempts responses, and None if and only if none of those is a member.
C3_ReturnsFirstMemberResponse ==
    (scenario = "corrector" /\ corr_pc = "returned") =>
        corr_inflight = FirstMemberResponse(oracle_log, corr_args.options,
                                            corr_args.max_attempts)

\* the taxonomy {"Metal": {"Ferrous": ["Steel-A36"]}}
SteelTaxonomy == [c \in {"Metal"} |-> [s \in {"Ferrous"} |-> <<"Steel-A36">>]]

AllAnswersExact ==
    \A i \in 1..Len(classify_log) : classify_log[i].answer \in classify_log[i].options

\* C4: when every answer of the classification oracle is a member of the
\* options it was offered, a run over a non-empty taxonomy completes the three
\* stages without invoking the corrector and returns the three answers; over
\* {"Metal": {"Ferrous": ["Steel-A36"]}} it returns Metal, Ferrous, Steel-A36.
C4_ExactAnswersAreTheResult ==
    /\ (WfEnded /\ AllAnswersExact /\ TaxonomyLoaded) =>
            /\ wf_pc = "returned"
            /\ corrector_calls = 0
            /\ Len(classify_log) = 3
            /\ mat_category = classify_log[1].answer
            /\ mat_subcategory = classify_log[2].answer
            /\ mat_grade = classify_log[3].answer
    /\ (WfEnded /\ AllAnswersExact /\ material_db = SteelTaxonomy) =>
            /\ mat_category = "Metal"
            /\ mat_subcategory = "Ferrous"
            /\ mat_grade = "Steel-A36"

NoAnswerInOptions ==
    /\ \A i \in 1..Len(classify_log) : classify_log[i].answer \notin classify_log[i].options
    /\ \A i \in 1..Len(oracle_log) : oracle_log[i].response \notin corr_args.options

NoClassifyCallFrom(stage) ==
    \A i \in 1..Len(classify_log) : classify_log[i].stage < stage

\* C5: a fallback to "Other" at stage 1 (at stage 2) over a taxonomy without
\* that key ends the run at stage 2 (at stage 3) in a lookup failure, with no
\* later oracle call; with an oracle that never answers inside the options the
\* run returns Other/Other/Other or fails the lookup of stage 2, nothing else.
C5_FallbackEndsInLookupFailure ==
    /\ (WfEnded /\ mat_category = "Other" /\ "Other" \notin DOMAIN material_db) =>
            /\ wf_pc = "raised" /\ wf_exc = "KeyError" /\ wf_stage = 2
            /\ NoClassifyCallFrom(2)
    /\ (/\ WfEnded /\ mat_subcategory = "Other"
        /\ mat_category \in DOMAIN material_db
        /\ "Other" \notin DOMAIN material_db[mat_category]) =>
            /\ wf_pc = "raised" /\ wf_exc = "KeyError" /\ wf_stage = 3
            /\ NoClassifyCallFrom(3)
    /\ (WfEnded /\ NoAnswerInOptions /\ TaxonomyLoaded) =>
            \/ /\ wf_pc = "returned"
               /\ mat_category = "Other"
               /\ mat_subcategory = "Other"
               /\ mat_grade = "Other"
            \/ wf_pc = "raised" /\ wf_exc = "KeyError" /\ wf_stage = 2

\* C6: a run calls get_material_information exactly once, before any call of
\* the classification oracle, and the classification-oracle call of every
\* stage it runs receives that description (stated of the runs over a
\* loaded taxonomy).
C6_DescriptionFetchedOnceAndReused ==
    TaxonomyLoaded =>
    /\ info_calls <= 1
    /\ classify_log # <<>> => info_calls = 1
    /\ \A i \in 1..Len(classify_log) :
            classify_log[i].material_information = material_info
    /\ WfEnded => info_calls = 1
    /\ \A stage \in 1..3 :
            ClassifyExecuted(stage) =>
                \E i \in 1..Len(classify_log) : classify_log[i].stage = stage

NoEmptyBranch(material_data) ==
    \A c \in get_categories(material_data) :
        /\ get_subcategories(material_data, c) # {}
        /\ \A s \in get_subcategories(material_data, c) :
                Len(get_grades(material_data, c, s)) >= 1

\* C7: whatever rows get_material_data has processed, every category of the
\* taxonomy has at least one subcategory and every subcategory at least one
\* grade, in the dictionary under construction and in the one returned.
C7_NoEmptyBranch ==
    /\ NoEmptyBranch(material_data_dict)
    /\ NoEmptyBranch(gmd_ret)

C7_Witness ==
    /\ gmd_pc = "returned" /\ load_status = "ok"
    /\ Cardinality(get_categories(gmd_ret)) = 2
    /\ \E c \in get_categories(gmd_ret) : Cardinality(get_subcategories(gmd_ret, c)) = 2

CellMissing(v) == v \in {None, ""}
RowIncomplete(row) ==
    CellMissing(row.grade) \/ CellMissing(row.category) \/ CellMissing(row.subcategory)

\* the step is one iteration of the loop of get_material_data
RowStep == gmd_pc = "rows" /\ Len(rows_read') = Len(rows_read) + 1
NewRow == rows_read'[Len(rows_read')]

\* C8: processing a row whose grade, category or subcategory is missing
\* leaves the taxonomy as it was, and the loop goes on with the next row.
C8_IncompleteRowSkipped ==
    [][(RowStep /\ RowIncomplete(NewRow)) =>
            (material_data_dict' = material_data_dict /\ gmd_pc' = "rows")]_vars

C8_Witness ==
    /\ gmd_pc = "rows" /\ Len(rows_read) = 2
    /\ RowIncomplete(rows_read[1])
    /\ ~RowIncomplete(rows_read[2])
    /\ rows_read[2].category \in DOMAIN material_data_dict

\* the first complete row with the triple (c, s, g)
FirstRowOf(c, s, g) ==
    CHOOSE i \in 1..Len(rows_read) :
        /\ rows_read[i] = [grade |-> g, category |-> c, subcategory |-> s]
        /\ \A j \in 1..(i - 1) : rows_read[j] # rows_read[i]

GradesInFirstInsertionOrder ==
    \A c \in DOMAIN material_data_dict : \A s \in DOMAIN material_data_dict[c] :
        LET grades == material_data_dict[c][s] IN
        /\ \A i \in 1..Len(grades) :
              \E k \in 1..Len(rows_read) :
                 rows_read[k] = [grade |-> grades[i], category |-> c, subcategory |-> s]
        /\ \A i, j \in 1..Len(grades) :
              i < j => /\ grades[i] # grades[j]
                       /\ FirstRowOf(c, s, grades[i]) < FirstRowOf(c, s, grades[j])

EveryCompleteRowListed ==
    \A k \in 1..Len(rows_read) :
        ~RowIncomplete(rows_read[k]) =>
            /\ rows_read[k].category \in DOMAIN material_data_dict
            /\ rows_read[k].subcategory \in DOMAIN material_data_dict[rows_read[k].category]
            /\ \E i \in 1..Len(material_data_dict[rows_read[k].category][rows_read[k].subcategory]) :
                  material_data_dict[rows_read[k].category][rows_read[k].subcategory][i]
                      = rows_read[k].grade

\* C9: a row whose (category, subcategory, grade) triple was processed before
\* leaves the taxonomy as it was; after any rows every grade list is free of
\* duplicates and holds the grades of its rows in order of first insertion.
C9_GradesDeduplicatedInOrder ==
    /\ [](gmd_pc = "rows" => (GradesInFirstInsertionOrder /\ EveryCompleteRowListed))
    /\ [][(RowStep /\ \E k \in 1..Len(rows_read) : rows_read[k] = NewRow) =>
              material_data_dict' = material_data_dict]_vars

C9_Witness ==
    /\ gmd_pc = "rows" /\ Len(rows_read) = 3
    /\ ~RowIncomplete(rows_read[1])
    /\ rows_read[3] = rows_read[1]
    /\ rows_read[2] = [rows_read[1] EXCEPT !.grade = "S235"]
    /\ rows_read[1].grade = "Steel-A36"
    /\ material_data_dict[rows_read[1].category][rows_read[1].subcategory]
          = <<"Steel-A36", "S235">>

LoadHasFailed == load_status \in {"FileNotFoundError", "Exception"}

\* C10 as stated: a load that fails hands the caller an empty taxonomy and,
\* with it, an error: what the caller receives differs from what a readable
\* sheet without a valid row gives, which is {} and no exception.
C10_CallerReceivesLoadError ==
    LoadHasFailed =>
        /\ gmd_pc = "returned"
        /\ gmd_ret = EmptyDict
        /\ <<gmd_ret, gmd_exc>> # <<EmptyDict, "none">>

\* C10, amended: a load that fails does not raise: get_material_data prints
\* an error message and returns the empty taxonomy, and nothing else reaches
\* the caller.
C10_LoadFailurePrintedEmptyReturned ==
    LoadHasFailed =>
        /\ gmd_pc = "returned"
        /\ gmd_ret = EmptyDict
        /\ gmd_exc = "none"
        /\ \E i \in 1..Len(stdout) :
              stdout[i] \in {"Error: File not found.", "Error: Failed to load workbook"}

C10_Witness ==
    /\ load_status = "FileNotFoundError"
    /\ gmd_pc = "returned"
    /\ stdout = <<"Error: File not found.">>

\* C11: once built, the taxonomy is only read: no step of a direct call of
\* correct_answer_from_list and no step of start_workflow (its lookups through
\* get_categories, get_subcategories and get_grades included) changes the
\* dictionary get_material_data returned.
C11_TaxonomyReadOnly ==
    [][(gmd_pc = "returned" \/ scenario \in {"corrector", "workflow"}) =>
            (gmd_ret' = gmd_ret /\ material_data_dict' = material_data_dict)]_vars

C11_Witness ==
    /\ TaxonomyLoaded
    /\ wf_pc = "raised"
    /\ wf_stage = 1
    /\ material_db = SteelTaxonomy

\* correct_answer_from_list (lines 183-230) run alone, as a function of the
\* responses the oracle gives it: the value it returns and the number of
\* responses it consumes.  "<pending>" stands for a run that still waits
\* for a response.
RECURSIVE SoloCorrect(_, _, _, _, _)
SoloCorrect(answer, options, counter, max_attempts, responses) ==
    IF counter >= max_attempts THEN [value |-> None, used |-> 0]
    ELSE IF responses = <<>> THEN [value |-> "<pending>", used |-> 0]
    ELSE LET r == Head(responses)
         IN  IF r = None THEN [value |-> None, used |-> 1]
             ELSE IF r \in options THEN [value |-> r, used |-> 1]
             ELSE LET inner == SoloCorrect(r, options, counter + 1,
                                           DefaultMaxAttempts, Tail(responses))
                  IN  [value |-> IF inner.value = "<pending>" THEN "<pending>"
                                 ELSE AfterRecursion(inner.value),
                       used |-> 1 + inner.used]

\* the responses the corrector of the given stage received, in order
StageResponses(log, stage) ==
    LET mine == SelectSeq(log, LAMBDA e : e.stage = stage)
    IN  [i \in 1..Len(mine) |-> mine[i].response]

\* lines 256-260: one stage run alone, from the classifier's answer and the
\* corrector's responses
SoloStage(first, options, responses) ==
    IF first \in options THEN OrOther(first)
    ELSE OrOther(SoloCorrect(first, options, DefaultCounter, DefaultMaxAttempts,
                             responses).value)

SoloEnd(pc, exc, category, subcategory, grade) ==
    [wf_pc |-> pc, wf_exc |-> exc, mat_category |-> category,
     mat_subcategory |-> subcategory, mat_grade |-> grade]

\* start_workflow (lines 246-288) run alone over the dictionary db, from
\* the classifier's answers (one per stage reached) and the corrector's log
SoloWorkflow(db, answers, log) ==
    IF ~CallBinds(1) THEN SoloEnd("raised", "TypeError", None, None, None)
    ELSE LET c == SoloStage(answers[1], get_categories(db), StageResponses(log, 1))
    IN  IF c \notin DOMAIN db THEN SoloEnd("raised", "KeyError", c, None, None)
    ELSE IF ~CallBinds(2) THEN SoloEnd("raised", "TypeError", c, None, None)
    ELSE LET sub == SoloStage(answers[2], get_subcategories(db, c),
                              StageResponses(log, 2))
    IN  IF sub \notin DOMAIN db[c] THEN SoloEnd("raised", "KeyError", c, sub, None)
    ELSE IF ~CallBinds(3) THEN SoloEnd("raised", "TypeError", c, sub, None)
    ELSE LET g == SoloStage(answers[3], Range(get_grades(db, c, sub)),
                            StageResponses(log, 3))
    IN  SoloEnd("returned", "none", c, sub, g)

\* a run with the locals `run` has ended (returned or raised)
RunEnded(run) ==
    \/ run.scenario = "corrector" /\ run.corr_pc = "returned"
    \/ run.scenario = "workflow" /\ run.wf_pc \in {"returned", "raised"}

\* the outcome of an ended run is the one the same call produces alone from
\* the oracle responses the run received
OutcomeIsSolo(run) ==
    /\ run.scenario = "corrector" =>
         LET solo == SoloCorrect(run.corr_args.answer, run.corr_args.options,
                                 DefaultCounter, run.corr_args.max_attempts,
                                 StageResponses(run.oracle_log, 0))
         IN  /\ run.corr_inflight = solo.value
             /\ Len(run.oracle_log) = solo.used
    /\ run.scenario = "workflow" =>
         SoloEnd(run.wf_pc, run.wf_exc, run.mat_category, run.mat_subcategory,
                 run.mat_grade)
           = SoloWorkflow(material_db,
                          [i \in 1..Len(run.classify_log) |-> run.classify_log[i].answer],
                          run.oracle_log)

\* C12: when two runs (start_workflow or a direct corrector invocation) over
\* one taxonomy are interleaved, every run that has ended has the outcome it
\* produces alone from the oracle responses it received; a step of the
\* executing run leaves the suspended run's locals, its corrector's counters
\* among them, as they are, and a run that resumes finds its locals exactly
\* as it left them.
C12_InterleavedRunsIndependent ==
    /\ [](RunEnded(RunLocals) => OutcomeIsSolo(RunLocals))
    /\ [](RunEnded(parked) => OutcomeIsSolo(parked))
    /\ [][\/ parked' = parked
          \/ parked' = RunLocals /\ RunLocals' = parked]_vars

\* one workflow run has ended in its error while the other, started before
\* that, is suspended past its information-oracle call with another
\* description
C12_Witness ==
    /\ scenario = "workflow" /\ wf_pc = "raised" /\ wf_exc = "TypeError"
    /\ parked.scenario = "workflow" /\ parked.wf_pc = "classify"
    /\ parked.info_calls = 1 /\ info_calls = 1
    /\ parked.material_info # material_info

\* C13: in a top-level invocation of correct_answer_from_list the first
\* oracle call submits the caller's answer and every later one submits the
\* oracle's response to the call before it.
C13_LatestAnswerResubmitted ==
    scenario = "corrector" =>
        /\ oracle_log # <<>> => oracle_log[1].answer = corr_args.answer
        /\ \A i \in 2..Len(oracle_log) :
                oracle_log[i].answer = oracle_log[i - 1].response

C13_Witness ==
    /\ scenario = "corrector"
    /\ Len(oracle_log) = 3
    /\ corr_args.answer = "metal alloy"
    /\ oracle_log[2].answer = "garbage"
    /\ oracle_log[3].answer = "Metal"

\* C14: a TypeError raised while the response is read ends the invocation:
\* no oracle call follows it, nothing is raised to the caller, and the
\* activation, and with it the invocation, returns None.
C14_TypeErrorReturnsNone ==
    scenario = "corrector" =>
        \A i \in 1..Len(oracle_log) :
            oracle_log[i].response = None =>
                /\ i = Len(oracle_log)
                /\ corr_pc \in {"unwinding", "returned"}
                /\ corr_inflight = None

C14_Witness ==
    /\ scenario = "corrector"
    /\ corr_pc = "returned"
    /\ Len(oracle_log) = 2
    /\ oracle_log[2].response = None
    /\ corr_inflight = None

\* the stage has been resolved: its variable holds a value and the run has
\* moved on from it
Resolved(stage) ==
    /\ StageValue(stage) # None
    /\ wf_stage > stage \/ (wf_stage = stage /\ wf_pc = "returned")

\* C15: a run goes from INIT through CATEGORY_RESOLVED and
\* SUBCATEGORY_RESOLVED to GRADE_RESOLVED in that order: a stage is resolved
\* only after the one before it, its oracle call is made only then, a result
\* is returned only with the grade resolved, and a run over a loaded taxonomy
\* does not end before the category is resolved.
C15_StagesResolvedInOrder ==
    /\ Resolved(2) => Resolved(1)
    /\ Resolved(3) => Resolved(2)
    /\ \A i \in 1..Len(classify_log) :
            classify_log[i].stage > 1 => Resolved(classify_log[i].stage - 1)
    /\ wf_pc = "returned" => Resolved(3)
    /\ (WfEnded /\ TaxonomyLoaded) => Resolved(1)

HasClassifyCall(stage, options) ==
    \E i \in 1..Len(classify_log) :
        classify_log[i].stage = stage /\ classify_log[i].options = options

\* C17: when neither the oracle nor the corrector resolves stage 1 and the
\* taxonomy has an "Other" category, the run takes "Other" as the category and
\* still calls the classification oracle for stage 2 with the subcategories
\* under "Other", and for stage 3 with the grades under the subcategory
\* chosen, unless the lookup of stage 3 fails.
C17_FallbackDoesNotShortCircuit ==
    (/\ WfEnded /\ TaxonomyLoaded
     /\ "Other" \in get_categories(material_db)
     /\ ~FirstAnswerExact(1)
     /\ ~CorrectorSucceeds(1, get_categories(material_db))) =>
        /\ mat_category = "Other"
        /\ HasClassifyCall(2, get_subcategories(material_db, "Other"))
        /\ \/ wf_pc = "raised" /\ wf_exc = "KeyError" /\ wf_stage = 3
           \/ HasClassifyCall(3, Range(get_grades(material_db, "Other", mat_subcategory)))

\* the calls a run has made of the language model that classifies: those of
\* classify_material and those of correct_answer_from_list
ClassificationOracleCalls == Len(classify_log) + Len(oracle_log)

\* C18: with every oracle call returning, an invocation of
\* correct_answer_from_list returns whatever the oracle answers, its recursion
\* never deeper than the default budget allows, and a run of start_workflow
\* ends, with a result or an error, after at most 3 * (1 + max_attempts)
\* classification-oracle calls.
C18_CorrectorAndWorkflowTerminate ==
    /\ [](Len(corr_stack) <= DefaultMaxAttempts + 1)
    /\ [](scenario = "workflow" =>
              ClassificationOracleCalls <= 3 * (1 + DefaultMaxAttempts))
    /\ (corr_pc = "running") ~> (corr_pc = "returned")
    /\ (wf_pc = "info") ~> WfEnded

C18_Witness ==
    /\ scenario = "corrector"
    /\ corr_pc = "returned"
    /\ Len(oracle_log) = DefaultMaxAttempts
    /\ \A i \in 1..Len(oracle_log) : oracle_log[i].response \notin corr_args.options
    /\ corr_inflight = None

=============================================================================
